---- MODULE Spec2Model ----
(***************************************************************************)
(* Minecraft health-check HTTP servers: the direct-check process variant   *)
(* (minecraft-health-server.py), the direct-check container variant        *)
(* (minecraft-health-server-docker.py) and the cached-poll variant         *)
(* (minecraft-health-server-polling.py).                                   *)
(*                                                                         *)
(* Strings the code inspects are sequences of one-character strings, so    *)
(* that strip, split and startswith are computed, not assumed.             *)
(***************************************************************************)
EXTENDS Integers, Sequences, FiniteSets, TLC

\* ------------------------------------------------------------- bounds
\* longest stdout of `docker ps --format {{.Status}}` that is enumerated
MaxLen == 3
\* largest reading of the wall clock time.time()
MaxTime == 1
\* largest CHECK_INTERVAL_SECONDS that is enumerated
MaxInterval == 1

\* ------------------------------------------------- program constants
\* subprocess.run(..., timeout=5)
TIMEOUT == 5
\* time.sleep(1) in main of the cached-poll variant
STARTUP_SLEEP == 1
\* 'last_check': None
None == -1

Variants == {"process", "docker", "polling"}

\* ------------------------------------------------------------ strings
Whitespace == {" ", "\n", "\t"}

RECURSIVE lstrip(_)
lstrip(s) ==
    IF s # <<>> /\ Head(s) \in Whitespace THEN lstrip(Tail(s)) ELSE s

RECURSIVE rstrip(_)
rstrip(s) ==
    IF s # <<>> /\ s[Len(s)] \in Whitespace
    THEN rstrip(SubSeq(s, 1, Len(s) - 1))
    ELSE s

\* str.strip()
strip(s) == rstrip(lstrip(s))

\* str.startswith(prefix)
startswith(s, prefix) ==
    /\ Len(s) >= Len(prefix)
    /\ SubSeq(s, 1, Len(prefix)) = prefix

\* str.split(sep) for a one-character separator: always at least one part
RECURSIVE split(_, _)
split(s, sep) ==
    IF \E i \in 1..Len(s) : s[i] = sep
    THEN LET i == CHOOSE k \in 1..Len(s) :
                      s[k] = sep /\ \A j \in 1..(k - 1) : s[j] # sep
         IN  <<SubSeq(s, 1, i - 1)>> \o split(SubSeq(s, i + 1, Len(s)), sep)
    ELSE <<s>>

StringsUpTo(chars, n) == UNION {[1..k -> chars] : k \in 0..n}

\* ------------------------------------------- outcomes of subprocess.run
\* kind "exit": the child ended with returncode rc and wrote stdout;
\* "timeout": subprocess.TimeoutExpired; "missing": FileNotFoundError;
\* "oserror": any other Exception.  rc and stdout are unbound when the call
\* raised; they are given fixed values there.
Raises == {"timeout", "missing", "oserror"}

Exited(rc, out) == [kind |-> "exit", rc |-> rc, stdout |-> out]
Raised(k) == [kind |-> k, rc |-> 0, stdout |-> <<>>]

\* pgrep -f: 0 = matched (one pid per line), 1 = no match, 2 = usage error
PgrepStdout == { <<"7", "\n">>, <<"7", "\n", "8", "\n">> }
PgrepOutcomes ==
    {Exited(0, out) : out \in PgrepStdout}
        \cup {Exited(1, <<>>), Exited(2, <<>>)}
        \cup {Raised(k) : k \in Raises}

\* docker ps --filter name=... --format {{.Status}}
StatusChars == {"U", "p", "x", "\n"}
DockerPsOutcomes ==
    {Exited(rc, out) : rc \in {0, 1}, out \in StringsUpTo(StatusChars, MaxLen)}
        \cup {Raised(k) : k \in Raises}

\* ------------------------------------------------------------- probers
\* The result of a prober call: the boolean it returned, or that it let an
\* exception escape to its caller.
Returned(b) == [raised |-> FALSE, value |-> b]
Escaped == [raised |-> TRUE, value |-> FALSE]

\* a prober whose only handler is except subprocess.TimeoutExpired
check_minecraft_process_uncaught(o) ==
    IF o.kind = "exit"
    THEN Returned(o.rc = 0)
    ELSE IF o.kind = "timeout"
    THEN Returned(FALSE)
    ELSE Escaped

\* a prober that takes a pgrep still running at the timeout for a match
check_minecraft_process_timeout_matches(o) ==
    IF o.kind = "exit"
    THEN Returned(o.rc = 0)
    ELSE Returned(o.kind = "timeout")

\* minecraft-health-server-polling.py: check_minecraft_process
check_minecraft_process(o) ==
    IF o.kind = "exit"
    THEN Returned(o.rc = 0)
    ELSE \* except Exception
         Returned(FALSE)

\* a prober whose only handler is except subprocess.TimeoutExpired
is_minecraft_running_uncaught(o) ==
    IF o.kind = "exit"
    THEN Returned(o.rc = 0)
    ELSE IF o.kind = "timeout"
    THEN Returned(FALSE)
    ELSE Escaped

\* minecraft-health-server.py: HealthCheckHandler.is_minecraft_running
is_minecraft_running(o) ==
    IF o.kind = "exit"
    THEN Returned(o.rc = 0)
    ELSE IF o.kind = "timeout"
    THEN \* except subprocess.TimeoutExpired
         Returned(FALSE)
    ELSE \* except Exception
         Returned(FALSE)

\* 'Up' in status
contains(s, sub) ==
    \E i \in 1..(Len(s) - Len(sub) + 1) : SubSeq(s, i, i + Len(sub) - 1) = sub

\* a container prober that tests 'Up' in status instead of startswith
docker_is_minecraft_running_contains(o) ==
    IF o.kind = "exit"
    THEN IF o.rc # 0
         THEN Returned(FALSE)
         ELSE LET status == strip(o.stdout)
              IN  Returned(contains(status, <<"U", "p">>))
    ELSE Returned(FALSE)

\* minecraft-health-server-docker.py: HealthCheckHandler.is_minecraft_running
docker_is_minecraft_running(o) ==
    IF o.kind = "exit"
    THEN IF o.rc # 0
         THEN Returned(FALSE)
         ELSE LET status == strip(o.stdout)
              IN  Returned(startswith(status, <<"U", "p">>))
    ELSE IF o.kind = "timeout"
    THEN Returned(FALSE)
    ELSE IF o.kind = "missing"
    THEN Returned(FALSE)
    ELSE Returned(FALSE)

\* ------------------------------------------------------------ routing
Paths == {"/health", "/debug", "/", "/health/"}

\* minecraft-health-server-polling.py: do_GET, if / else
polling_route(path) ==
    IF path = "/health" THEN "health" ELSE "notfound"

\* a do_GET without the elif for /debug
process_route_no_debug(path) ==
    IF path = "/health" THEN "health" ELSE "notfound"

\* minecraft-health-server.py: do_GET, if / elif / else
process_route(path) ==
    IF path = "/health" THEN "health"
    ELSE IF path = "/debug" THEN "debug"
    ELSE "notfound"

\* minecraft-health-server-docker.py: do_GET, if / elif / else
docker_route(path) ==
    IF path = "/health" THEN "health"
    ELSE IF path = "/debug" THEN "debug"
    ELSE "notfound"

\* ---------------------------------------------------------- responses
NoResponse == [path |-> "", code |-> 0, body |-> [kind |-> "none"]]
EmptyBody == [kind |-> "empty"]

\* polling: send_response(200 | 503) and str(response)
polling_health_response(is_running, last_check) ==
    IF is_running
    THEN [code |-> 200,
          body |-> [kind |-> "health", status |-> "ok",
                    minecraft |-> "running", last_check |-> last_check]]
    ELSE [code |-> 503,
          body |-> [kind |-> "health", status |-> "error",
                    minecraft |-> "not_running", last_check |-> last_check]]

\* process and docker: send_response(200 | 503) and the literal body
direct_health_response(is_running) ==
    IF is_running
    THEN [code |-> 200,
          body |-> [kind |-> "health", status |-> "ok",
                    minecraft |-> "running"]]
    ELSE [code |-> 503,
          body |-> [kind |-> "health", status |-> "error",
                    minecraft |-> "not_running"]]

\* send_response(404); end_headers()
not_found_response == [code |-> 404, body |-> EmptyBody]

\* ------------------------------------------------- cached-poll state
\* a status record that starts as running
InitialStatusRunning == [is_running |-> TRUE, last_check |-> None]

\* a record that starts with a time stamp
InitialStatusStamped == [is_running |-> FALSE, last_check |-> 0]

\* minecraft_status = {'is_running': False, 'last_check': None}
InitialStatus == [is_running |-> FALSE, last_check |-> None]

\* a reader or writer that does not take the lock
CanAcquireUnlocked(holder) == TRUE

\* threading.Lock.acquire(): blocks until the lock is free
CanAcquire(holder) == holder = "free"

\* the loop with the assignment of is_running left out
AfterSkipsIsRunning(stmt) ==
    CASE stmt = "probe"          -> "acquire"
      [] stmt = "acquire"        -> "set_last_check"
      [] stmt = "set_is_running" -> "set_last_check"
      [] stmt = "set_last_check" -> "release"
      [] stmt = "release"        -> "sleep"
      [] stmt = "sleep"          -> "probe"

\* the loop with the probe moved inside the with block
AfterProbeUnderLock(stmt) ==
    CASE stmt = "acquire"        -> "probe"
      [] stmt = "probe"          -> "set_is_running"
      [] stmt = "set_is_running" -> "set_last_check"
      [] stmt = "set_last_check" -> "release"
      [] stmt = "release"        -> "sleep"
      [] stmt = "sleep"          -> "acquire"

\* the loop with the sleep indented into the with block
AfterSleepUnderLock(stmt) ==
    CASE stmt = "probe"          -> "acquire"
      [] stmt = "acquire"        -> "set_is_running"
      [] stmt = "set_is_running" -> "set_last_check"
      [] stmt = "set_last_check" -> "sleep"
      [] stmt = "sleep"          -> "release"
      [] stmt = "release"        -> "probe"

\* the loop that stores first and probes afterwards: a pass stores the
\* result of the pass before
AfterWriteBeforeProbe(stmt) ==
    CASE stmt = "sleep"          -> "acquire"
      [] stmt = "acquire"        -> "set_is_running"
      [] stmt = "set_is_running" -> "set_last_check"
      [] stmt = "set_last_check" -> "release"
      [] stmt = "release"        -> "probe"
      [] stmt = "probe"          -> "sleep"

\* the loop that takes the lock and never releases it
AfterWithoutRelease(stmt) ==
    CASE stmt = "probe"          -> "acquire"
      [] stmt = "acquire"        -> "set_is_running"
      [] stmt = "set_is_running" -> "set_last_check"
      [] stmt = "set_last_check" -> "sleep"
      [] stmt = "release"        -> "sleep"
      [] stmt = "sleep"          -> "probe"

\* the loop without its sleep: the next probe follows the write at once
AfterWithoutSleep(stmt) ==
    CASE stmt = "probe"          -> "acquire"
      [] stmt = "acquire"        -> "set_is_running"
      [] stmt = "set_is_running" -> "set_last_check"
      [] stmt = "set_last_check" -> "release"
      [] stmt = "release"        -> "probe"
      [] stmt = "sleep"          -> "probe"

\* background_checker: the statement that follows each statement of the
\* loop body (probe; with lock: two assignments; sleep; back to probe)
After(stmt) ==
    CASE stmt = "probe"          -> "acquire"
      [] stmt = "acquire"        -> "set_is_running"
      [] stmt = "set_is_running" -> "set_last_check"
      [] stmt = "set_last_check" -> "release"
      [] stmt = "release"        -> "sleep"
      [] stmt = "sleep"          -> "probe"

NoRuns == [k \in {} |-> 0]

NoProbe == [by |-> "none", outcome |-> Raised("oserror"), result |-> Returned(FALSE)]

VARIABLES
    variant,          \* which of the three scripts runs
    checkInterval,    \* CHECK_INTERVAL
    mainPc,           \* position of the main thread
    exitCode,         \* exit status of the process, -1 while it runs
    mainSleepLeft,    \* remaining time of main's time.sleep(1)
    startupCheck,     \* how main's check of the probe tool ended, if it ran one
    schedPc,          \* position of the background_checker thread
    sched_is_running, \* background_checker's local is_running
    probeElapsed,     \* time the scheduler's probe of this cycle has taken
    sleepLeft,        \* remaining time of the scheduler's time.sleep
    lock,             \* holder of status_lock
    status,           \* minecraft_status
    now,              \* the latest reading of time.time(), 0 before the first
    reqPath,          \* self.path of the request being handled
    h_is_running,     \* do_GET's local is_running
    h_last_check,     \* do_GET's local last_check
    resp,             \* the response to the latest request
    probe,            \* the prober call whose result is being used, if any
    debugRuns,        \* outcome of each sub-probe of the /debug being answered
    written,          \* history: a scheduler write has completed
    committed,        \* history: the pair of the latest completed write
    readCands,        \* history: pairs committed while the read held the lock
    hSawWritten,      \* history: written, when the handler took the lock
    probedTrue,       \* history: some scheduler probe returned True
    probedFalse       \* history: some scheduler probe returned False

vars == <<variant, checkInterval, mainPc, exitCode, mainSleepLeft,
          startupCheck, schedPc, sched_is_running, probeElapsed, sleepLeft,
          lock, status, now, reqPath, h_is_running, h_last_check, resp,
          probe, debugRuns,
          written, committed, readCands, hSawWritten, probedTrue, probedFalse>>

mainVars == <<mainPc, exitCode, mainSleepLeft, startupCheck>>
schedVars == <<schedPc, sched_is_running, probeElapsed, sleepLeft>>
handlerVars == <<reqPath, h_is_running, h_last_check, resp, debugRuns>>
histVars == <<written, committed, readCands, hSawWritten, probedTrue, probedFalse>>

Init ==
    /\ variant \in Variants
    /\ checkInterval \in (IF variant = "polling" THEN 0..MaxInterval ELSE {0})
    /\ mainPc = "start"
    /\ exitCode = -1
    /\ startupCheck = "none"
    /\ mainSleepLeft = 0
    /\ schedPc = "idle"
    /\ sched_is_running = FALSE
    /\ probeElapsed = 0
    /\ sleepLeft = 0
    /\ lock = "free"
    /\ status = InitialStatus
    /\ now = 0
    /\ reqPath = ""
    /\ h_is_running = FALSE
    /\ h_last_check = None
    /\ resp = NoResponse
    /\ probe = NoProbe
    /\ debugRuns = NoRuns
    /\ written = FALSE
    /\ committed = InitialStatus
    /\ readCands = {}
    /\ hSawWritten = FALSE
    /\ probedTrue = FALSE
    /\ probedFalse = FALSE

Running == mainPc # "exited"
Serving == {"serving", "h_acquire", "h_read1", "h_read2", "h_release",
            "h_respond", "responded"}

\* ------------------------------------------------------------- main()
\* polling main: checker_thread.start(); time.sleep(1).  The thread enters
\* the while loop at the statement that also follows its last one.
MainStartChecker ==
    /\ variant = "polling"
    /\ mainPc = "start"
    /\ mainPc' = "startup_sleep"
    /\ mainSleepLeft' = STARTUP_SLEEP
    /\ schedPc' = After("sleep")
    /\ UNCHANGED <<variant, checkInterval, exitCode, startupCheck,
                   sched_is_running, probeElapsed, sleepLeft, lock, status,
                   now, probe>>
    /\ UNCHANGED handlerVars
    /\ UNCHANGED histVars

MainStartupSleepDone ==
    /\ mainPc = "startup_sleep"
    /\ mainSleepLeft = 0
    /\ mainPc' = "bind"
    /\ UNCHANGED <<variant, checkInterval, exitCode, startupCheck,
                   mainSleepLeft, lock, status, now, probe>>
    /\ UNCHANGED schedVars
    /\ UNCHANGED handlerVars
    /\ UNCHANGED histVars

\* process main: nothing between the banner and the bind
MainProcessStart ==
    /\ variant = "process"
    /\ mainPc = "start"
    /\ mainPc' = "bind"
    /\ UNCHANGED <<variant, checkInterval, exitCode, startupCheck,
                   mainSleepLeft, lock, status, now, probe>>
    /\ UNCHANGED schedVars
    /\ UNCHANGED handlerVars
    /\ UNCHANGED histVars

\* The process ends with the given status: the daemon thread, the store,
\* the lock and every local end with it.  What is known of the startup check
\* is left to the caller.
ProcessExit(code) ==
    /\ mainPc' = "exited"
    /\ exitCode' = code
    /\ mainSleepLeft' = 0
    /\ schedPc' = "idle"
    /\ sched_is_running' = FALSE
    /\ probeElapsed' = 0
    /\ sleepLeft' = 0
    /\ lock' = "free"
    /\ status' = InitialStatus
    /\ now' = 0
    /\ reqPath' = ""
    /\ h_is_running' = FALSE
    /\ h_last_check' = None
    /\ resp' = NoResponse
    /\ probe' = NoProbe
    /\ debugRuns' = NoRuns
    /\ written' = FALSE
    /\ committed' = InitialStatus
    /\ readCands' = {}
    /\ hSawWritten' = FALSE
    /\ probedTrue' = FALSE
    /\ probedFalse' = FALSE
    /\ UNCHANGED <<variant, checkInterval>>

\* main goes on to the next statement; nothing else changes
MainGoto(pc) ==
    /\ mainPc' = pc
    /\ UNCHANGED <<variant, checkInterval, exitCode, startupCheck,
                   mainSleepLeft, lock, status, now, probe>>
    /\ UNCHANGED schedVars
    /\ UNCHANGED handlerVars
    /\ UNCHANGED histVars

\* docker main: subprocess.run(['docker', '--version']); only
\* FileNotFoundError exits, a failed or hanging call is a warning
DockerVersionOutcomes == {Exited(0, <<>>), Exited(1, <<>>)} \cup {Raised(k) : k \in Raises}

MainDockerVersion ==
    /\ variant = "docker"
    /\ mainPc = "start"
    /\ \E o \in DockerVersionOutcomes :
          /\ startupCheck' = o.kind
          /\ IF o.kind = "missing"
             THEN \* sys.exit(1)
                  ProcessExit(1)
             ELSE /\ mainPc' = "bind"
                  /\ UNCHANGED <<variant, checkInterval, exitCode,
                                 mainSleepLeft, lock, status, now, probe>>
                  /\ UNCHANGED schedVars
                  /\ UNCHANGED handlerVars
                  /\ UNCHANGED histVars

\* socketserver.TCPServer(("", PORT), HealthCheckHandler)
BindResults == {"ok", "PermissionError", "OSError"}

MainBind ==
    /\ mainPc = "bind"
    /\ \E r \in BindResults :
          IF r = "ok"
          THEN MainGoto("serving")
          ELSE \* except PermissionError / except OSError: sys.exit(1)
               ProcessExit(1) /\ UNCHANGED startupCheck

\* a main without except KeyboardInterrupt: the interrupt ends the process
\* with a traceback and a failure status
MainInterruptUncaught ==
    /\ mainPc \in Serving
    /\ ProcessExit(1)
    /\ UNCHANGED startupCheck

\* except KeyboardInterrupt: main returns and the daemon thread ends with it
MainInterrupt ==
    /\ mainPc \in Serving
    /\ ProcessExit(0)
    /\ UNCHANGED startupCheck

\* --------------------------------------------------- background_checker
\* is_running = check_minecraft_process(): the call begins
SchedStartProbe ==
    /\ Running
    /\ schedPc = "probe"
    /\ schedPc' = "probing"
    /\ probeElapsed' = 0
    /\ UNCHANGED <<variant, checkInterval, sched_is_running, sleepLeft, lock,
                   status, now, probe>>
    /\ UNCHANGED mainVars
    /\ UNCHANGED handlerVars
    /\ UNCHANGED histVars

\* the call returns; subprocess.run raises TimeoutExpired exactly when the
\* child has run for the whole timeout.  An exception that escaped the
\* prober would end the thread.
SchedProbeDone ==
    /\ Running
    /\ schedPc = "probing"
    /\ \E o \in PgrepOutcomes :
          /\ (o.kind = "timeout") <=> (probeElapsed = TIMEOUT)
          /\ LET r == check_minecraft_process(o)
             IN  /\ probe' = [by |-> "scheduler", outcome |-> o, result |-> r]
                 /\ IF r.raised
                    THEN /\ schedPc' = "crashed"
                         /\ UNCHANGED <<sched_is_running, probedTrue, probedFalse>>
                    ELSE /\ schedPc' = After("probe")
                         /\ sched_is_running' = r.value
                         /\ probedTrue' = (probedTrue \/ r.value)
                         /\ probedFalse' = (probedFalse \/ ~r.value)
    /\ UNCHANGED <<variant, checkInterval, probeElapsed, sleepLeft, lock,
                   status, now, written, committed, readCands, hSawWritten>>
    /\ UNCHANGED mainVars
    /\ UNCHANGED handlerVars

\* with status_lock: (enter)
SchedAcquire ==
    /\ Running
    /\ schedPc = "acquire"
    /\ CanAcquire(lock)
    /\ lock' = "scheduler"
    /\ schedPc' = After("acquire")
    /\ UNCHANGED <<variant, checkInterval, sched_is_running, probeElapsed,
                   sleepLeft, status, now, probe>>
    /\ UNCHANGED mainVars
    /\ UNCHANGED handlerVars
    /\ UNCHANGED histVars

\* minecraft_status['is_running'] = is_running
SchedSetIsRunning ==
    /\ Running
    /\ schedPc = "set_is_running"
    /\ status' = [status EXCEPT !.is_running = sched_is_running]
    /\ schedPc' = After("set_is_running")
    /\ UNCHANGED <<variant, checkInterval, sched_is_running, probeElapsed,
                   sleepLeft, lock, now, probe>>
    /\ UNCHANGED mainVars
    /\ UNCHANGED handlerVars
    /\ UNCHANGED histVars

\* minecraft_status['last_check'] = time.time(): the write is complete, and
\* the probe whose result it stored is no longer pending.  time.time() is the
\* wall clock: each reading is at least the one before it.
SchedSetLastCheck ==
    /\ Running
    /\ schedPc = "set_last_check"
    /\ \E t \in now..MaxTime :
          /\ now' = t
          /\ status' = [status EXCEPT !.last_check = t]
    /\ schedPc' = After("set_last_check")
    /\ written' = TRUE
    /\ committed' = status'
    /\ readCands' = IF mainPc \in {"h_read1", "h_read2"}
                    THEN readCands \cup {status'}
                    ELSE readCands
    /\ probe' = NoProbe
    /\ UNCHANGED <<variant, checkInterval, sched_is_running, probeElapsed,
                   sleepLeft, lock, hSawWritten, probedTrue, probedFalse>>
    /\ UNCHANGED mainVars
    /\ UNCHANGED handlerVars

\* with status_lock: (exit)
SchedRelease ==
    /\ Running
    /\ schedPc = "release"
    /\ lock' = "free"
    /\ schedPc' = After("release")
    /\ UNCHANGED <<variant, checkInterval, sched_is_running, probeElapsed,
                   sleepLeft, status, now, probe>>
    /\ UNCHANGED mainVars
    /\ UNCHANGED handlerVars
    /\ UNCHANGED histVars

\* time.sleep(CHECK_INTERVAL): the sleep begins
SchedSleep ==
    /\ Running
    /\ schedPc = "sleep"
    /\ schedPc' = "sleeping"
    /\ sleepLeft' = checkInterval
    /\ UNCHANGED <<variant, checkInterval, sched_is_running, probeElapsed,
                   lock, status, now, probe>>
    /\ UNCHANGED mainVars
    /\ UNCHANGED handlerVars
    /\ UNCHANGED histVars

\* the sleep returns and the loop starts its next cycle
SchedWake ==
    /\ Running
    /\ schedPc = "sleeping"
    /\ sleepLeft = 0
    /\ schedPc' = After("sleep")
    /\ probeElapsed' = 0
    /\ UNCHANGED <<variant, checkInterval, sched_is_running, sleepLeft, lock,
                   status, now, probe>>
    /\ UNCHANGED mainVars
    /\ UNCHANGED handlerVars
    /\ UNCHANGED histVars

\* ------------------------------------------------------------- time
\* One unit of time passes for every call that is waiting: the probe in
\* flight and the two sleeps.  A call that has used up its time returns
\* before more time passes.
Tick ==
    /\ Running
    /\ \/ schedPc = "probing"
       \/ schedPc = "sleeping"
       \/ mainPc = "startup_sleep"
    /\ schedPc = "probing" => probeElapsed < TIMEOUT
    /\ schedPc = "sleeping" => sleepLeft > 0
    /\ mainPc = "startup_sleep" => mainSleepLeft > 0
    /\ probeElapsed' = IF schedPc = "probing" THEN probeElapsed + 1 ELSE probeElapsed
    /\ sleepLeft' = IF schedPc = "sleeping" THEN sleepLeft - 1 ELSE sleepLeft
    /\ mainSleepLeft' = IF mainPc = "startup_sleep" THEN mainSleepLeft - 1 ELSE mainSleepLeft
    /\ UNCHANGED <<variant, checkInterval, mainPc, exitCode, startupCheck,
                   schedPc, sched_is_running, lock, status, now, probe>>
    /\ UNCHANGED handlerVars
    /\ UNCHANGED histVars

\* ------------------------------------------- cached-poll do_GET
\* a request arrives; any path but /health is answered 404 at once
PollingAccept ==
    /\ variant = "polling"
    /\ mainPc = "serving"
    /\ \E path \in Paths :
          /\ reqPath' = path
          /\ IF polling_route(path) = "health"
             THEN /\ mainPc' = "h_acquire"
                  /\ resp' = NoResponse
             ELSE /\ mainPc' = "responded"
                  /\ resp' = [path |-> path] @@ not_found_response
    /\ readCands' = {}
    /\ h_is_running' = FALSE
    /\ h_last_check' = None
    /\ hSawWritten' = FALSE
    /\ UNCHANGED <<variant, checkInterval, exitCode, startupCheck,
                   mainSleepLeft, lock, status, now, probe, debugRuns,
                   written, committed, probedTrue, probedFalse>>
    /\ UNCHANGED schedVars

\* with status_lock: (enter)
HandlerAcquire ==
    /\ mainPc = "h_acquire"
    /\ CanAcquire(lock)
    /\ lock' = "handler"
    /\ mainPc' = "h_read1"
    /\ hSawWritten' = written
    /\ readCands' = {committed}
    /\ UNCHANGED <<variant, checkInterval, exitCode, startupCheck,
                   mainSleepLeft, status, now, probe, written, committed,
                   probedTrue, probedFalse>>
    /\ UNCHANGED schedVars
    /\ UNCHANGED handlerVars

\* is_running = minecraft_status['is_running']
HandlerReadIsRunning ==
    /\ mainPc = "h_read1"
    /\ h_is_running' = status.is_running
    /\ mainPc' = "h_read2"
    /\ UNCHANGED <<variant, checkInterval, exitCode, startupCheck,
                   mainSleepLeft, lock, status, now, probe, reqPath,
                   h_last_check, resp, debugRuns>>
    /\ UNCHANGED schedVars
    /\ UNCHANGED histVars

\* a do_GET that stamps the record with the time of the read
HandlerReadLastCheckStamps ==
    /\ mainPc = "h_read2"
    /\ h_last_check' = status.last_check
    /\ status' = [status EXCEPT !.last_check = now]
    /\ mainPc' = "h_release"
    /\ UNCHANGED <<variant, checkInterval, exitCode, startupCheck,
                   mainSleepLeft, lock, now, probe, reqPath, h_is_running,
                   resp, debugRuns>>
    /\ UNCHANGED schedVars
    /\ UNCHANGED histVars

\* last_check = minecraft_status['last_check']
HandlerReadLastCheck ==
    /\ mainPc = "h_read2"
    /\ h_last_check' = status.last_check
    /\ mainPc' = "h_release"
    /\ UNCHANGED <<variant, checkInterval, exitCode, startupCheck,
                   mainSleepLeft, lock, status, now, probe, reqPath,
                   h_is_running, resp, debugRuns>>
    /\ UNCHANGED schedVars
    /\ UNCHANGED histVars

\* with status_lock: (exit)
HandlerRelease ==
    /\ mainPc = "h_release"
    /\ lock' = "free"
    /\ mainPc' = "h_respond"
    /\ UNCHANGED <<variant, checkInterval, exitCode, startupCheck,
                   mainSleepLeft, status, now, probe>>
    /\ UNCHANGED schedVars
    /\ UNCHANGED handlerVars
    /\ UNCHANGED histVars

\* if is_running: 200 ... else: 503 ...
HandlerRespond ==
    /\ mainPc = "h_respond"
    /\ resp' = [path |-> reqPath] @@ polling_health_response(h_is_running, h_last_check)
    /\ mainPc' = "responded"
    /\ UNCHANGED <<variant, checkInterval, exitCode, startupCheck,
                   mainSleepLeft, lock, status, now, probe, reqPath,
                   h_is_running, h_last_check, debugRuns>>
    /\ UNCHANGED schedVars
    /\ UNCHANGED histVars

\* ------------------------------------------- direct-check do_GET
\* an exception that escapes do_GET closes the connection unanswered
aborted_response == [code |-> 0, body |-> [kind |-> "aborted"]]

ProberOutcomes(v) == IF v = "docker" THEN DockerPsOutcomes ELSE PgrepOutcomes

Prober(v, o) ==
    IF v = "docker" THEN docker_is_minecraft_running(o) ELSE is_minecraft_running(o)

Route(v, path) ==
    IF v = "docker" THEN docker_route(path)
    ELSE IF v = "process" THEN process_route(path)
    ELSE polling_route(path)

\* GET /health: the handler probes, then answers
DirectHealth ==
    /\ variant \in {"process", "docker"}
    /\ mainPc = "serving"
    /\ \E path \in Paths :
          /\ Route(variant, path) = "health"
          /\ reqPath' = path
          /\ \E o \in ProberOutcomes(variant) :
                LET r == Prober(variant, o)
                IN  /\ probe' = [by |-> "handler", outcome |-> o, result |-> r]
                    /\ resp' = [path |-> path] @@
                               (IF r.raised THEN aborted_response
                                ELSE direct_health_response(r.value))
    /\ mainPc' = "responded"
    /\ UNCHANGED <<variant, checkInterval, exitCode, startupCheck,
                   mainSleepLeft, lock, status, now, h_is_running,
                   h_last_check, debugRuns>>
    /\ UNCHANGED schedVars
    /\ UNCHANGED histVars

\* ---------------------------------------- process variant: /debug
\* patterns = ['bedrock_server', 'bedrock', 'minecraft', 'LD_LIBRARY_PATH']
Patterns == {"bedrock_server", "bedrock", "minecraft", "LD_LIBRARY_PATH"}

\* a loop body that reports a pgrep that raised as "not found"
search_result_swallow(o) ==
    IF o.kind = "exit"
    THEN [found |-> (o.rc = 0),
          pids  |-> IF o.rc = 0 THEN split(strip(o.stdout), "\n") ELSE <<>>]
    ELSE [found |-> FALSE, pids |-> <<>>]

\* the body of the for loop: one entry of search_results
search_result(o) ==
    IF o.kind = "exit"
    THEN [found |-> (o.rc = 0),
          pids  |-> IF o.rc = 0 THEN split(strip(o.stdout), "\n") ELSE <<>>]
    ELSE \* except Exception as e: {'error': str(e)}
         [error |-> o.kind]

\* get_debug_info of minecraft-health-server.py, given what
\* is_minecraft_running returned and the outcome of each pgrep
process_debug_info(is_running, runs) ==
    [process_name   |-> "MINECRAFT_PROCESS_NAME",
     is_running     |-> is_running,
     search_results |-> [p \in Patterns |-> search_result(runs[p])]]

\* ----------------------------------------- docker variant: /debug
\* stdout of docker ps -a --format '{{.Names}}\t{{.Status}}\t{{.Image}}'
PsAStdouts ==
    { <<>>,
      <<"n", "\t", "s", "\t", "i", "\n">>,
      <<"n", "\t", "s", "\t", "i", "\n", "m", "\t", "s", "\t", "i", "\n">>,
      <<"n", "\t", "s", "\n">>,
      <<"n", "\t", "s", "\t", "i", "\t", "x", "\n", "\n", "m", "\n">> }

PsAOutcomes ==
    {Exited(0, out) : out \in PsAStdouts}
        \cup {Exited(1, <<>>)}
        \cup {Raised(k) : k \in Raises}

\* for line in ...: if line: parts = line.split('\t'); if len(parts) >= 3: ...
RECURSIVE containers_of(_)
containers_of(lines) ==
    IF lines = <<>> THEN <<>>
    ELSE LET line == Head(lines)
             parts == split(line, "\t")
         IN  IF line # <<>> /\ Len(parts) >= 3
             THEN <<[name |-> parts[1], status |-> parts[2], image |-> parts[3]]>>
                      \o containers_of(Tail(lines))
             ELSE containers_of(Tail(lines))

\* stdout of docker inspect, as the tokens of the document
InspectStdouts ==
    { <<"[", "]">>,
      <<"[", "{", "State", "Name", "}", "]">>,
      <<"[", "{", "}", "]">>,
      <<"{", "Id", "}">>,
      <<"0">>,
      <<"[", "{">> }

InspectOutcomes ==
    {Exited(0, out) : out \in InspectStdouts}
        \cup {Exited(1, <<"[", "]">>)}
        \cup {Raised(k) : k \in Raises}

\* json.loads on the documents above: a list of objects (each the set of
\* its keys), an object, a number, or JSONDecodeError
json_loads(out) ==
    CASE out = <<"[", "]">> ->
            [ok |-> TRUE, type |-> "list", items |-> <<>>]
      [] out = <<"[", "{", "State", "Name", "}", "]">> ->
            [ok |-> TRUE, type |-> "list", items |-> <<{"State", "Name"}>>]
      [] out = <<"[", "{", "}", "]">> ->
            [ok |-> TRUE, type |-> "list", items |-> <<{}>>]
      [] out = <<"{", "Id", "}">> ->
            [ok |-> TRUE, type |-> "dict", items |-> <<{"Id"}>>]
      [] out = <<"0">> ->
            [ok |-> TRUE, type |-> "number", items |-> <<>>]
      [] OTHER ->
            [ok |-> FALSE, type |-> "none", items |-> <<>>]

\* bool(container_info)
truthy(v) == v.type \in {"list", "dict"} /\ v.items # <<>>

\* dict.get(key, default) on an object given by its keys
get(obj, key, default) == IF key \in obj THEN <<"value of", key>> ELSE default

NoSection == [k \in {} |-> 0]

\* the first try block of get_debug_info: all containers
all_containers_section(o) ==
    IF o.kind = "exit"
    THEN IF o.rc = 0
         THEN "all_containers" :> containers_of(split(strip(o.stdout), "\n"))
         ELSE "error" :> <<"stderr">>
    ELSE \* except Exception as e
         "error" :> <<o.kind>>

\* the second try block of get_debug_info: the target container
target_container_section(o) ==
    IF o.kind = "exit"
    THEN IF o.rc = 0
         THEN LET container_info == json_loads(o.stdout)
              IN  IF ~container_info.ok
                  THEN \* JSONDecodeError
                       "target_container_error" :> <<"JSONDecodeError">>
                  ELSE IF ~truthy(container_info)
                  THEN NoSection
                  ELSE IF container_info.type # "list"
                  THEN \* container_info[0] raises KeyError
                       "target_container_error" :> <<"KeyError">>
                  ELSE "target_container" :>
                           [state |-> get(container_info.items[1], "State", <<"{}">>),
                            name  |-> get(container_info.items[1], "Name", <<>>)]
         ELSE "target_container" :> <<"not_found">>
    ELSE \* except Exception as e
         "target_container_error" :> <<o.kind>>

\* get_debug_info of minecraft-health-server-docker.py; a later assignment
\* to a key replaces an earlier one
docker_debug_info(is_running, runs) ==
    [container_name |-> "DOCKER_CONTAINER_NAME",
     is_running     |-> is_running,
     docker_info    |-> target_container_section(runs["inspect"])
                            @@ all_containers_section(runs["ps_a"])]

DebugRuns(v) ==
    IF v = "docker"
    THEN {("ps_a" :> a) @@ ("inspect" :> b) : a \in PsAOutcomes, b \in InspectOutcomes}
    ELSE [Patterns -> PgrepOutcomes]

DebugInfo(v, is_running, runs) ==
    IF v = "docker" THEN docker_debug_info(is_running, runs)
    ELSE process_debug_info(is_running, runs)

\* self.send_response(200); ...; self.wfile.write(debug_info.encode())
debug_response(doc) == [code |-> 200, body |-> [kind |-> "debug", doc |-> doc]]

\* GET /debug: the handler probes, runs the sub-probes, then answers
DirectDebug ==
    /\ variant \in {"process", "docker"}
    /\ mainPc = "serving"
    /\ \E path \in Paths :
          /\ Route(variant, path) = "debug"
          /\ reqPath' = path
          /\ \E o \in ProberOutcomes(variant), runs \in DebugRuns(variant) :
                LET r == Prober(variant, o)
                IN  /\ probe' = [by |-> "handler", outcome |-> o, result |-> r]
                    /\ debugRuns' = runs
                    /\ resp' = [path |-> path] @@
                               (IF r.raised THEN aborted_response
                                ELSE debug_response(DebugInfo(variant, r.value, runs)))
    /\ mainPc' = "responded"
    /\ UNCHANGED <<variant, checkInterval, exitCode, startupCheck,
                   mainSleepLeft, lock, status, now, h_is_running,
                   h_last_check>>
    /\ UNCHANGED schedVars
    /\ UNCHANGED histVars

\* any other path
DirectNotFound ==
    /\ variant \in {"process", "docker"}
    /\ mainPc = "serving"
    /\ \E path \in Paths :
          /\ Route(variant, path) = "notfound"
          /\ reqPath' = path
          /\ resp' = [path |-> path] @@ not_found_response
    /\ mainPc' = "responded"
    /\ UNCHANGED <<variant, checkInterval, exitCode, startupCheck,
                   mainSleepLeft, lock, status, now, probe, h_is_running,
                   h_last_check, debugRuns>>
    /\ UNCHANGED schedVars
    /\ UNCHANGED histVars

\* ------------------------------------------------ end of a request
\* do_GET has returned: the handler object and its locals are dropped and
\* serve_forever waits for the next request.  In the direct-check variants
\* the record of the handler's prober call goes with them.
HandlerFinish ==
    /\ mainPc = "responded"
    /\ mainPc' = "serving"
    /\ reqPath' = ""
    /\ h_is_running' = FALSE
    /\ h_last_check' = None
    /\ resp' = NoResponse
    /\ readCands' = {}
    /\ hSawWritten' = FALSE
    /\ probe' = IF variant = "polling" THEN probe ELSE NoProbe
    /\ debugRuns' = NoRuns
    /\ UNCHANGED <<variant, checkInterval, exitCode, startupCheck,
                   mainSleepLeft, lock, status, now, written, committed,
                   probedTrue, probedFalse>>
    /\ UNCHANGED schedVars

Next ==
    \/ MainStartChecker
    \/ MainStartupSleepDone
    \/ MainProcessStart
    \/ MainDockerVersion
    \/ MainBind
    \/ MainInterrupt
    \/ SchedStartProbe
    \/ SchedProbeDone
    \/ SchedAcquire
    \/ SchedSetIsRunning
    \/ SchedSetLastCheck
    \/ SchedRelease
    \/ SchedSleep
    \/ SchedWake
    \/ Tick
    \/ PollingAccept
    \/ HandlerAcquire
    \/ HandlerReadIsRunning
    \/ HandlerReadLastCheck
    \/ HandlerRelease
    \/ HandlerRespond
    \/ DirectHealth
    \/ DirectDebug
    \/ DirectNotFound
    \/ HandlerFinish

Spec == Init /\ [][Next]_vars

\* ------------------------------------- the cached-poll variant, scheduled
\* Every thread that can run does run: the scheduler thread, the timers and
\* the main thread up to serve_forever and inside do_GET.  A thread blocked
\* on status_lock gets it if it is released again and again (the other
\* thread leaves its with block and waits for I/O or sleeps before it takes
\* the lock anew).  No request and no interrupt has to arrive.
PollInit == Init /\ variant = "polling"

SchedStep ==
    \/ SchedStartProbe
    \/ SchedProbeDone
    \/ SchedSetIsRunning
    \/ SchedSetLastCheck
    \/ SchedRelease
    \/ SchedSleep
    \/ SchedWake

MainStartup ==
    \/ MainStartChecker
    \/ MainStartupSleepDone
    \/ MainBind

HandlerProgress ==
    \/ HandlerReadIsRunning
    \/ HandlerReadLastCheck
    \/ HandlerRelease
    \/ HandlerRespond
    \/ HandlerFinish

PollNext ==
    \/ MainStartup
    \/ MainInterrupt
    \/ SchedStep
    \/ SchedAcquire
    \/ Tick
    \/ PollingAccept
    \/ HandlerAcquire
    \/ HandlerProgress

Fairness ==
    /\ WF_vars(MainStartup)
    /\ WF_vars(SchedStep)
    /\ SF_vars(SchedAcquire)
    /\ WF_vars(Tick)
    /\ SF_vars(HandlerAcquire)
    /\ WF_vars(HandlerProgress)

FairSpec == PollInit /\ [][PollNext]_vars /\ Fairness

\* =====================================================================
\* Properties
\* =====================================================================
Pair(r, t) == [is_running |-> r, last_check |-> t]

PollingHealthAnswered ==
    variant = "polling" /\ mainPc = "responded" /\ reqPath = "/health"

\* C1: in the cached-poll variant the pair (is_running, last_check) that a
\* /health read obtains is a pair that was stored whole: the pair in the
\* store when the read took the lock or the pair of a write that completed
\* during the read, never is_running of one and last_check of another.
C1_ReadIsAtomic ==
    (variant = "polling" /\ mainPc \in {"h_release", "h_respond", "responded"}
        /\ reqPath = "/health")
    => Pair(h_is_running, h_last_check) \in readCands

\* a read after the first write: it returned the pair of that write, which
\* differs from the initial pair in both fields
C1_Witness ==
    /\ variant = "polling"
    /\ mainPc = "h_respond"
    /\ readCands = {Pair(TRUE, h_last_check)}
    /\ h_is_running
    /\ h_last_check # None
    /\ ~probedFalse

\* C2: in the cached-poll variant, while every scheduler probe has returned
\* True, a /health request that read the store after the first write is
\* answered 200 with the running payload; while every probe has returned
\* False, every /health request is answered 503 with the not-running payload.
C2_StubbedProber ==
    PollingHealthAnswered =>
        /\ (hSawWritten /\ ~probedFalse) =>
              /\ resp.code = 200
              /\ resp.body.status = "ok"
              /\ resp.body.minecraft = "running"
        /\ ~probedTrue =>
              /\ resp.code = 503
              /\ resp.body.status = "error"
              /\ resp.body.minecraft = "not_running"

C2_Witness ==
    /\ PollingHealthAnswered
    /\ hSawWritten
    /\ ~probedFalse
    /\ resp.code = 200

\* C3: in the cached-poll variant a /health request that reads the status
\* record before the first scheduler write has completed is answered 503
\* with the not-running payload, whatever the prober has found.
C3_UncheckedIs503 ==
    (PollingHealthAnswered /\ ~hSawWritten) =>
        /\ resp.code = 503
        /\ resp.body.status = "error"
        /\ resp.body.minecraft = "not_running"
        /\ resp.body.last_check = None

\* answered 503 while the first probe has found the target running but its
\* result is not stored yet
C3_Witness ==
    /\ PollingHealthAnswered
    /\ ~hSawWritten
    /\ ~written
    /\ resp.code = 503
    /\ schedPc = "acquire"
    /\ sched_is_running

HandlerStep ==
    \/ HandlerAcquire
    \/ HandlerReadIsRunning
    \/ HandlerReadLastCheck
    \/ HandlerRelease
    \/ HandlerRespond

HandlerPcs == {"h_acquire", "h_read1", "h_read2", "h_release", "h_respond"}

\* C4: in the cached-poll variant no prober call is made by the handler, and
\* whenever a /health request is being handled while the scheduler's probe
\* is in flight the handler can take its next step: it never waits for the
\* probe, however long the probe has run.
C4_NoProbeOnRequestPath ==
    variant = "polling" =>
        /\ probe.by # "handler"
        /\ (Running /\ mainPc \in HandlerPcs /\ schedPc = "probing")
              => ENABLED HandlerStep

\* a /health request answered while a probe has run for the whole timeout
C4_Witness ==
    /\ PollingHealthAnswered
    /\ schedPc = "probing"
    /\ probeElapsed = TIMEOUT

\* C5: in the cached-poll variant the scheduler holds the status lock only
\* across its two assignments and the handler only across its two reads:
\* the lock is never held by a thread that is probing or sleeping.
C5_LockHeldOnlyAcrossAccess ==
    (variant = "polling" /\ Running) =>
        /\ lock = "scheduler"
              => schedPc \in {"set_is_running", "set_last_check", "release"}
        /\ lock = "handler" => mainPc \in {"h_read1", "h_read2", "h_release"}
        /\ schedPc \in {"probe", "probing", "sleep", "sleeping"}
              => lock # "scheduler"

\* the scheduler holds the lock in the middle of a write while a request
\* waits for it
C5_Witness ==
    /\ variant = "polling"
    /\ lock = "scheduler"
    /\ schedPc = "set_last_check"
    /\ mainPc = "h_acquire"
Answered == mainPc = "responded"
Direct == variant \in {"process", "docker"}

\* the liveness value a /health request has obtained: the store read in the
\* cached-poll variant, the handler's own probe in the direct-check variants
Obtained ==
    IF variant = "polling"
    THEN h_is_running
    ELSE probe.by = "handler" /\ ~probe.result.raised /\ probe.result.value

\* C6: in every variant a GET /health is answered 200 exactly when the
\* liveness value it obtained is true and 503 otherwise, and with no other
\* status, whatever the outcome of the probe (exit, timeout, missing tool,
\* other error).
C6_HealthIs200Or503 ==
    (Answered /\ reqPath = "/health") =>
        /\ resp.code \in {200, 503}
        /\ resp.code = 200 <=> Obtained

\* a direct-check /health whose probe found the tool missing
C6_Witness ==
    /\ Answered
    /\ reqPath = "/health"
    /\ variant = "process"
    /\ probe.outcome.kind = "missing"
    /\ resp.code = 503

BeginsWithUp(out) ==
    \E i \in 1..(Len(out) - 1) :
        /\ out[i] = "U"
        /\ out[i + 1] = "p"
        /\ \A j \in 1..(i - 1) : out[j] \in Whitespace

\* what the mechanism reports: pgrep exited 0; docker ps exited 0 and its
\* status output begins with "Up"
ReportsRunning(v, o) ==
    /\ o.kind = "exit"
    /\ o.rc = 0
    /\ v = "docker" => BeginsWithUp(o.stdout)

\* C8: every prober call returns (nothing escapes to the caller), and it
\* returns True exactly when the mechanism reports the target running; a
\* non-zero exit, a timeout, a missing tool and any other exception give
\* False.
C8_ProberDerivation ==
    probe.by # "none" =>
        /\ ~probe.result.raised
        /\ probe.result.value <=> ReportsRunning(variant, probe.outcome)

\* the container prober given "Up" and a newline
C8_Witness ==
    /\ variant = "docker"
    /\ probe.by = "handler"
    /\ probe.outcome = Exited(0, <<"U", "p", "\n">>)
    /\ probe.result.value

DebugAnswered == Answered /\ Direct /\ reqPath = "/debug"

\* a sub-probe failed: it raised, or it exited non-zero
Failed(o) == o.kind \in Raises \/ o.rc # 0

docker_info == resp.body.doc.docker_info

FailingProbePending ==
    probe.by = "scheduler" /\ ~ReportsRunning("polling", probe.outcome)

\* C10: whatever the outcomes of the probes, a failing scheduler probe returns
\* False to the loop, the loop stores is_running = False for it, and the
\* scheduler starts a probe again and again for as long as the process runs.
C10_SchedulerNeverStops ==
    /\ [](FailingProbePending =>
            /\ ~probe.result.raised
            /\ ~sched_is_running
            /\ schedPc \in {"acquire", "set_is_running", "set_last_check"}
            /\ (schedPc = "set_last_check" => ~status.is_running))
    /\ (FailingProbePending ~>
            ((probe.by = "none" /\ written /\ ~status.is_running) \/ ~Running))
    /\ []<>(schedPc = "probing" \/ ~Running)

\* in a later cycle, a probe that found the tool missing is being stored as
\* not running
C10_Witness ==
    /\ variant = "polling"
    /\ written
    /\ probedTrue
    /\ schedPc = "set_last_check"
    /\ probe.outcome.kind = "missing"
    /\ ~status.is_running

\* ------------------------------------------------------------- C11
\* C11: in the cached-poll variant, when the probe of a cycle took longer
\* than the check interval, the next probe begins as soon as the result is
\* written: the scheduler is never in a sleep with time left after such a
\* probe.
C11_NoSleepAfterSlowProbe ==
    (variant = "polling" /\ probeElapsed > checkInterval)
        => ~(schedPc = "sleeping" /\ sleepLeft > 0)

\* ------------------------------------------------------------- C12
\* the time the calls of the scheduler's current cycle have taken: its probe
\* and the part of its sleep that has passed
CycleTime ==
    probeElapsed + (IF schedPc = "sleeping" THEN checkInterval - sleepLeft ELSE 0)

\* C12: in the cached-poll variant a scheduler probe never runs longer than
\* the timeout; a probe cut off at the timeout returns False to the loop,
\* which stores is_running = False for it; and the calls of a cycle take at
\* most the timeout more than the check interval, which is what they take
\* when the probe takes no time, so the next cycle starts at most the
\* timeout later.
C12_TimeoutBoundsDelay ==
    variant = "polling" =>
        /\ probeElapsed <= TIMEOUT
        /\ (probe.by = "scheduler" /\ probe.outcome.kind = "timeout") =>
              /\ probeElapsed = TIMEOUT
              /\ ~probe.result.raised
              /\ ~sched_is_running
        /\ (probeElapsed = TIMEOUT /\ schedPc \in {"release", "sleep", "sleeping"})
              => ~status.is_running
        /\ schedPc = "sleeping" => sleepLeft \in 0..checkInterval
        /\ CycleTime <= checkInterval + TIMEOUT

\* the sleep after a probe that was cut off has run out: the store, which
\* held True of an earlier probe, holds False, and the cycle has taken the
\* timeout more than the interval
C12_Witness ==
    /\ variant = "polling"
    /\ probedTrue
    /\ probeElapsed = TIMEOUT
    /\ schedPc = "sleeping"
    /\ sleepLeft = 0
    /\ checkInterval = MaxInterval
    /\ CycleTime = checkInterval + TIMEOUT
    /\ ~status.is_running
    /\ status.last_check # None

\* ------------------------------------------------------------- C13
\* C13: in every variant the listener exists only after main's startup check
\* ran the probe tool and did not find it missing, and a startup check that
\* found the tool missing has ended the process with a non-zero status.
C13_ToolCheckedBeforeListening ==
    /\ mainPc \in Serving => startupCheck \notin {"none", "missing"}
    /\ startupCheck = "missing" => (mainPc = "exited" /\ exitCode > 0)

\* ------------------------------------------------------------- C14
\* a prober call ends in this step and has not found the target running
ProbeFails ==
    /\ probe' # probe
    /\ probe'.by # "none"
    /\ ~ReportsRunning(variant, probe'.outcome)

\* C14: in every variant, a process that ends while it serves (by an
\* interrupt) ends with status 0; a process that ends at the bind (the port
\* cannot be bound: PermissionError or any other OSError) ends with a
\* non-zero status; the process ends nowhere else but at the startup check;
\* and a step in which a probe fails ends neither the process nor the
\* scheduler thread.
C14_ExitCodes ==
    [][/\ (mainPc # "exited" /\ mainPc' = "exited") =>
              /\ mainPc \in Serving => exitCode' = 0
              /\ mainPc = "bind" => exitCode' > 0
              /\ mainPc \in Serving \cup {"bind", "start"}
       /\ mainPc' # "exited" => exitCode' = -1
       /\ ProbeFails => (mainPc' # "exited" /\ schedPc' # "crashed")]_vars

\* the cached-poll process has ended with status 0
C14_Witness ==
    /\ variant = "polling"
    /\ mainPc = "exited"
    /\ exitCode = 0

\* ------------------------------------------------------------- C15
\* the main thread takes a step of do_GET: it accepts a request, moves
\* inside the handler or finishes the request
RequestStep ==
    /\ mainPc \in Serving
    /\ mainPc' \in Serving
    /\ mainPc' # mainPc

\* C15: in the cached-poll variant no step of handling a request, /health
\* or any other path, changes is_running or last_check of the record; while
\* the process runs the record changes only in the two assignments of the
\* scheduler's with block.
C15_SchedulerIsOnlyWriter ==
    [][variant = "polling" =>
          /\ RequestStep => status' = status
          /\ (status' # status /\ mainPc' # "exited") =>
                /\ lock = "scheduler"
                /\ schedPc \in {"set_is_running", "set_last_check"}
                /\ schedPc' = After(schedPc)
                /\ mainPc' = mainPc]_vars

\* a /health request has been answered 200 from a record the scheduler
\* wrote, and the record still holds what the request read
C15_Witness ==
    /\ PollingHealthAnswered
    /\ resp.code = 200
    /\ written
    /\ status = Pair(h_is_running, h_last_check)
    /\ status.last_check = MaxTime

\* ------------------------------------------------------------- C16
\* the scheduler thread moves from statement a to statement b
SchedMoves(a, b) == schedPc = a /\ schedPc' = b

\* C16: in the cached-poll variant the scheduler thread runs its cycle in
\* one order: it starts a probe, the probe ends and gives the loop its
\* result, the thread takes the lock, stores that result in is_running,
\* stores the time in last_check, releases the lock, starts a sleep of the
\* check interval and starts the next probe when the whole interval has
\* passed.  Hence a write follows a probe of the same cycle and stores its
\* result, one write lies between two probes, and a probe starts only when
\* none is in flight.
C16_CycleOrder ==
    /\ [][(variant = "polling" /\ schedPc' # schedPc) =>
             \/ mainPc' = "exited" /\ schedPc' = "idle"
             \/ SchedMoves("idle", "probe") /\ probe.by = "none"
             \/ SchedMoves("probe", "probing") /\ probe.by = "none"
             \/ /\ SchedMoves("probing", "acquire")
                /\ probe.by = "none"
                /\ probe'.by = "scheduler"
                /\ sched_is_running' = probe'.result.value
                /\ status' = status
             \/ SchedMoves("acquire", "set_is_running") /\ status' = status
             \/ /\ SchedMoves("set_is_running", "set_last_check")
                /\ probe.by = "scheduler"
                /\ status' = [status EXCEPT !.is_running = probe.result.value]
             \/ /\ SchedMoves("set_last_check", "release")
                /\ probe.by = "scheduler"
                /\ status'.is_running = probe.result.value
                /\ status'.last_check # None
                /\ probe'.by = "none"
             \/ SchedMoves("release", "sleep") /\ status' = status
             \/ SchedMoves("sleep", "sleeping") /\ sleepLeft' = checkInterval
             \/ SchedMoves("sleeping", "probe") /\ sleepLeft = 0]_vars
    /\ [][(variant = "polling" /\ schedPc = "sleeping" /\ sleepLeft' # sleepLeft
              /\ mainPc' # "exited")
             => (sleepLeft' = sleepLeft - 1 /\ schedPc' = "sleeping")]_vars

\* a later cycle has slept its whole interval of one time unit: its probe
\* found the target gone, and its write stored False where an earlier cycle
\* had stored True
C16_Witness ==
    /\ variant = "polling"
    /\ schedPc = "sleeping"
    /\ checkInterval = 1
    /\ sleepLeft = 0
    /\ probedTrue
    /\ probedFalse
    /\ ~status.is_running
    /\ ~sched_is_running
    /\ probe.by = "none"
    /\ written

\* ------------------------------------------------------------- C17
\* some scheduler probe has completed; sched_is_running is then the result
\* of the latest one
ProbeCompleted == probedTrue \/ probedFalse

\* the scheduler is inside its with block and has not finished the two
\* assignments
WriteInProgress == schedPc \in {"set_is_running", "set_last_check"}

\* the scheduler has a result that it has not stored whole: it waits for
\* the lock or is at one of the two assignments
WritePending == schedPc \in {"acquire", "set_is_running", "set_last_check"}

LastCheckGrows ==
    (variant = "polling" /\ mainPc' # "exited" /\ status.last_check # None)
        => (status'.last_check # None
            /\ status'.last_check >= status.last_check)

\* C18 as claimed: in the cached-poll variant last_check is None exactly
\* while no scheduler write has completed, is_running = True implies that
\* last_check is not None, and a last_check that is set stays set and never
\* decreases.
C18_Original ==
    /\ [](variant = "polling" =>
            /\ (status.last_check = None) <=> ~written
            /\ status.is_running => status.last_check # None)
    /\ [][LastCheckGrows]_vars

\* C18: in the cached-poll variant last_check is None exactly while no
\* scheduler write has completed; a last_check that is set is a reading of
\* the clock, stays set and never decreases; is_running = True implies that
\* last_check is not None except while the first write is between its two
\* assignments, where the record is (True, None) under the lock; every pair
\* that a /health request reads with is_running = True has a last_check.
C18_LastCheck ==
    /\ [](variant = "polling" =>
            /\ (status.last_check = None) <=> ~written
            /\ status.last_check # None => status.last_check \in 0..now
            /\ (status.is_running /\ status.last_check = None) =>
                  (schedPc = "set_last_check" /\ lock = "scheduler")
            /\ (mainPc \in {"h_release", "h_respond", "responded"}
                   /\ reqPath = "/health" /\ h_is_running)
                  => h_last_check # None)
    /\ [][LastCheckGrows]_vars

\* a later write has completed at a later reading of the clock than the
\* first one: probes have returned True and False, and the record holds the
\* latest time
C18_Witness ==
    /\ variant = "polling"
    /\ schedPc = "release"
    /\ probedTrue
    /\ probedFalse
    /\ written
    /\ status.last_check = MaxTime
    /\ now = MaxTime

\* ------------------------------------------------------------- C19
\* the steps of the scheduler inside its with block, up to the release
SchedInsideWith ==
    \/ SchedSetIsRunning
    \/ SchedSetLastCheck
    \/ SchedRelease

\* the steps of the handler inside its with block, up to the release
HandlerInsideWith ==
    \/ HandlerReadIsRunning
    \/ HandlerReadLastCheck
    \/ HandlerRelease

\* C19: in the cached-poll variant the thread that holds status_lock is
\* inside its with block, where it takes no lock and never waits: its next
\* step, up to the release, can always be taken.  Under fair scheduling the
\* lock is therefore released every time it is taken, every accepted
\* /health request gets its response and every scheduler write that waits
\* for the lock completes, unless the process is ended first.
C19_NoDeadlock ==
    /\ []((Running /\ lock = "scheduler") =>
            /\ schedPc \in {"set_is_running", "set_last_check", "release"}
            /\ ENABLED SchedInsideWith)
    /\ []((Running /\ lock = "handler") =>
            /\ mainPc \in {"h_read1", "h_read2", "h_release"}
            /\ ENABLED HandlerInsideWith)
    /\ (lock = "scheduler" ~> lock # "scheduler")
    /\ (lock = "handler" ~> lock # "handler")
    /\ (mainPc = "h_acquire" ~> (mainPc = "responded" \/ ~Running))
    /\ (schedPc = "acquire" ~> (schedPc = "sleep" \/ ~Running))

\* a /health request has been accepted while the scheduler is inside its
\* write: the handler waits for the lock
C19_Witness ==
    /\ variant = "polling"
    /\ mainPc = "h_acquire"
    /\ reqPath = "/health"
    /\ lock = "scheduler"
    /\ schedPc = "set_last_check"
    /\ ~ENABLED HandlerAcquire

====
